---- MODULE Spec2Model ----
(***************************************************************************)
(* The Rentys web client: two browser sessions working against the shared  *)
(* backend tables profiles, rooms and requests.  Each handler of the       *)
(* pages (OwnerDashboard, RoomDetails, AddRoomForm) and of the route guard *)
(* (AuthGuard) is one action.                                              *)
(***************************************************************************)
EXTENDS Integers, FiniteSets, Sequences, TLC

\* ------------------------------------------------------------------ bounds
MaxRooms == 2
MaxRequests == 2

Clients == {"c1", "c2"}
Users == {"u1", "u2", "u3", "u4"}
\* the users that sign in on each browser
UsersCreate(c) == IF c = "c1" THEN {"u1", "u4"} ELSE {"u2"}
UsersDecide(c) == IF c = "c1" THEN {"u2"} ELSE {"u2", "u3"}
Messages == {"", "hello"}
Rents == {5000}

\* ------------------------------------------------------- values and tables
NoUser == "none"
NoRole == "none"
NoRoomId == 0
DefaultMessage == "I'm interested in this room"
FKViolation == "violates foreign key constraint requests_room_id_fkey"
FetchFailed == "Failed to fetch"
OnDeleteRules == {"no_action", "cascade", "set_null"}

Profiles ==
  { [id |-> 1, user_id |-> "u1", role |-> "tenant", name |-> "n1", email |-> "e1", phone |-> "t1"],
    [id |-> 2, user_id |-> "u2", role |-> "owner",  name |-> "n2", email |-> "e2", phone |-> "t2"],
    [id |-> 3, user_id |-> "u3", role |-> "owner",  name |-> "n3", email |-> "e3", phone |-> "t3"] }

NoProfile == [id |-> 0, user_id |-> NoUser, role |-> NoRole, name |-> "", email |-> "", phone |-> ""]
NoRoom ==
  [id |-> NoRoomId, owner_id |-> 0, rent |-> 0, is_active |-> FALSE,
   city |-> <<>>, landmark |-> <<>>, room_type |-> ""]
\* a room of the table that is not active
InactiveRoom ==
  [id |-> 1, owner_id |-> 3, rent |-> 5000, is_active |-> FALSE,
   city |-> <<"a">>, landmark |-> <<>>, room_type |-> "both"]
NoTenant == [name |-> "", email |-> "", phone |-> ""]
NoSummary == [rent |-> 0]
NoToast == [title |-> "", description |-> ""]
DefaultBudget == 50000
\* no AuthGuard is mounted
NoGuard ==
  [mounted |-> FALSE, user |-> NoUser, loading |-> TRUE, checks |-> {}, lookups |-> {},
   events |-> <<>>, signedOut |-> FALSE, late |-> FALSE]
\* TenantDashboard before its first fetch
NoListing ==
  [rooms |-> {}, searchLocation |-> <<>>, budget |-> DefaultBudget, roomType |-> "both"]

VARIABLES
  rooms,          \* table rooms
  requests,       \* table requests
  nextRoomId,     \* next fresh room id
  nextReqId,      \* next fresh request id
  onDelete,       \* ON DELETE rule of requests_room_id_fkey
  session,        \* per client: the signed-in user of the auth client
  notify,         \* per client: a session-changed notification is pending
  route,          \* per client: the current route
  roomId,         \* per client: the :roomId parameter of /room/:roomId
  userRole,       \* per client: AuthGuard's userRole state
  ownerRooms,     \* per client: OwnerDashboard's rooms state
  ownerRequests,  \* per client: OwnerDashboard's requests state
  room,           \* per client: RoomDetails' room state
  message,        \* per client: RoomDetails' message state
  tenant,         \* per client: TenantDashboard's rooms and search state
  guard,          \* per client: AuthGuard's user, loading and pending continuations
  last            \* the latest handler call: its arguments and its toast

vars == <<rooms, requests, nextRoomId, nextReqId, onDelete, session, notify, route,
          roomId, userRole, ownerRooms, ownerRequests, room, message, tenant, guard, last>>

\* ----------------------------------------------------------------- queries
\* from("profiles").select(...).eq("user_id", u).single()
ProfileOf(u) ==
  IF \E p \in Profiles : p.user_id = u
  THEN CHOOSE p \in Profiles : p.user_id = u
  ELSE NoProfile

ProfileById(i) ==
  IF \E p \in Profiles : p.id = i
  THEN CHOOSE p \in Profiles : p.id = i
  ELSE NoProfile

\* from("rooms").select(...).eq("id", rid).single()
RoomById(rms, rid) ==
  IF \E r \in rms : r.id = rid
  THEN CHOOSE r \in rms : r.id = rid
  ELSE NoRoom

\* tenant:profiles!requests_tenant_id_fkey (name, email, phone)
TenantJoin(q) ==
  LET p == ProfileById(q.tenant_id)
  IN IF p = NoProfile THEN NoTenant
     ELSE [name |-> p.name, email |-> p.email, phone |-> p.phone]

\* room:rooms!requests_room_id_fkey (address_line, city, rent)
RoomJoin(rms, q) ==
  LET r == RoomById(rms, q.room_id)
  IN IF r = NoRoom THEN NoSummary ELSE [rent |-> r.rent]

JoinedRequest(rms, q) ==
  [id |-> q.id, room_id |-> q.room_id, tenant_id |-> q.tenant_id, owner_id |-> q.owner_id,
   message |-> q.message, status |-> q.status,
   tenant |-> TenantJoin(q), room |-> RoomJoin(rms, q)]

\* the list without a filter
ListForOwner_All(rms, reqs, o) ==
  { JoinedRequest(rms, q) : q \in reqs }

\* the list filtered by the tenant's id instead of the owner's
ListForOwner_ByTenant(rms, reqs, o) ==
  { JoinedRequest(rms, q) : q \in { x \in reqs : x.tenant_id = o } }

\* from("requests").select(...).eq("owner_id", o)
ListForOwner(rms, reqs, o) ==
  { JoinedRequest(rms, q) : q \in { x \in reqs : x.owner_id = o } }

\* from("rooms").select("*").eq("owner_id", o)
RoomsOfOwner(rms, o) == { r \in rms : r.owner_id = o }

Toast(t, d) == [title |-> t, description |-> d]

\* fetchOwnerData: the views it leaves in the dashboard's state
FetchOwnerData(u, up, rms, reqs, oldRooms, oldRequests) ==
  LET p == ProfileOf(u)
  IN IF u = NoUser \/ p = NoProfile \/ ~up
     THEN [rooms |-> oldRooms, requests |-> oldRequests, ok |-> FALSE]
     ELSE [rooms |-> RoomsOfOwner(rms, p.id),
           requests |-> ListForOwner(rms, reqs, p.id), ok |-> TRUE]

\* ------------------------------------------------------------- route guard
Guarded == {"/tenant", "/owner", "/room"}
Routes == {"/"} \cup Guarded

RequiredRole(path) == IF path = "/owner" THEN "owner" ELSE "tenant"

OwnDashboard(role) == IF role = "tenant" THEN "/tenant" ELSE "/owner"

\* AuthGuard renders its children
Rendered(c) == route[c] \in Guarded /\ userRole[c] = RequiredRole(route[c])

\* no lifecycle call is the latest
Idle ==
  [op |-> "", client |-> "", actor |-> 0, req |-> 0, room |-> NoRoomId, arg |-> "",
   pre |-> "none", owner |-> 0, up |-> TRUE, toast |-> NoToast]

Call(op, c) ==
  [op |-> op, client |-> c, actor |-> ProfileOf(session[c]).id,
   req |-> 0, room |-> NoRoomId, arg |-> "", pre |-> "none", owner |-> 0, up |-> TRUE,
   toast |-> NoToast]


\* TenantDashboard.fetchRooms: from("rooms").select("*").eq("is_active", true)
FetchRooms(rms) == { r \in rms : r.is_active }

\* the state of a route whose children are not mounted
Blank(path, rid, role) ==
  [route |-> path, roomId |-> rid, userRole |-> role, ownerRooms |-> {},
   ownerRequests |-> {}, room |-> NoRoom, message |-> "", tenant |-> NoListing,
   toast |-> NoToast]

\* the children of a guarded route mount: their useEffect fetches run
Mount(path, rid, role, u) ==
  IF path = "/owner"
  THEN LET f == FetchOwnerData(u, TRUE, rooms, requests, {}, {})
       IN [Blank("/owner", NoRoomId, role) EXCEPT
             !.ownerRooms = f.rooms, !.ownerRequests = f.requests,
             !.toast = IF f.ok THEN NoToast ELSE Toast("Error", "Failed to fetch data")]
  ELSE IF path = "/room"
  THEN LET r == RoomById(rooms, rid)
       IN IF r # NoRoom
          THEN [Blank("/room", rid, role) EXCEPT !.room = r]
          ELSE [Blank("/tenant", NoRoomId, role) EXCEPT
                  !.tenant = [NoListing EXCEPT !.rooms = FetchRooms(rooms)],
                  !.toast = Toast("Error", "Failed to fetch room details")]
  ELSE [Blank("/tenant", NoRoomId, role) EXCEPT
          !.tenant = [NoListing EXCEPT !.rooms = FetchRooms(rooms)]]

\* what the guard makes of a route for the session user u
Guard(path, rid, u) ==
  LET p == ProfileOf(u)
  IN IF path = "/" \/ u = NoUser THEN Blank("/", NoRoomId, NoRole)
     ELSE IF p = NoProfile THEN Blank(path, rid, NoRole)
     ELSE IF p.role # RequiredRole(path)
          THEN Mount(OwnDashboard(p.role), NoRoomId, p.role, u)
          ELSE Mount(path, rid, p.role, u)

\* the client-local state of c becomes m
Show(c, m) ==
  /\ route' = [route EXCEPT ![c] = m.route]
  /\ roomId' = [roomId EXCEPT ![c] = m.roomId]
  /\ userRole' = [userRole EXCEPT ![c] = m.userRole]
  /\ ownerRooms' = [ownerRooms EXCEPT ![c] = m.ownerRooms]
  /\ ownerRequests' = [ownerRequests EXCEPT ![c] = m.ownerRequests]
  /\ room' = [room EXCEPT ![c] = m.room]
  /\ message' = [message EXCEPT ![c] = m.message]
  /\ tenant' = [tenant EXCEPT ![c] = m.tenant]
  /\ UNCHANGED guard

Local(c) ==
  [route |-> route[c], roomId |-> roomId[c], userRole |-> userRole[c],
   ownerRooms |-> ownerRooms[c], ownerRequests |-> ownerRequests[c],
   room |-> room[c], message |-> message[c], tenant |-> tenant[c], toast |-> NoToast]

db == <<rooms, requests, nextRoomId, nextReqId, onDelete>>

\* ----------------------------------------------------------------- actions
\* a route is entered (URL, link or navigate): App's routes and AuthGuard's checkAuth
checkAuth(c, path, rid) ==
  /\ (path = "/room") = (rid # NoRoomId)
  /\ LET m == Guard(path, rid, session[c])
     IN /\ Show(c, m)
        /\ last' = IF m.route = "/owner" /\ m.userRole = "owner"
                   THEN [Call("fetchOwnerData", c) EXCEPT !.toast = m.toast]
                   ELSE Idle
  /\ notify' = [notify EXCEPT ![c] = FALSE]
  /\ UNCHANGED <<db, session>>

\* AuthGuard's onAuthStateChange callback
onAuthStateChange(c) ==
  /\ notify[c]
  /\ route[c] \in Guarded
  /\ LET u == session[c]
         p == ProfileOf(u)
         role == IF p # NoProfile THEN p.role ELSE userRole[c]
         m == IF u = NoUser THEN Blank("/", NoRoomId, NoRole)
              ELSE IF role = NoRole THEN Local(c)
              ELSE IF role # RequiredRole(route[c])
                   THEN Mount(OwnDashboard(role), NoRoomId, role, u)
              ELSE IF Rendered(c) THEN Local(c)
              ELSE Mount(route[c], roomId[c], role, u)
     IN /\ Show(c, m)
        /\ last' = Idle
  /\ notify' = [notify EXCEPT ![c] = FALSE]
  /\ UNCHANGED <<db, session>>

\* the auth client signs a user in (Auth page, or another tab of the browser)
signIn(c, u) ==
  /\ u # session[c]
  /\ session' = [session EXCEPT ![c] = u]
  /\ notify' = [notify EXCEPT ![c] = route[c] \in Guarded]
  /\ last' = Idle
  /\ UNCHANGED <<db, route, roomId, userRole, ownerRooms, ownerRequests, room, message,
                 tenant, guard>>

\* the session ends outside the page (expiry, sign-out in another tab)
sessionEnded(c) ==
  /\ session[c] # NoUser
  /\ session' = [session EXCEPT ![c] = NoUser]
  /\ notify' = [notify EXCEPT ![c] = route[c] \in Guarded]
  /\ last' = Idle
  /\ UNCHANGED <<db, route, roomId, userRole, ownerRooms, ownerRequests, room, message,
                 tenant, guard>>

\* handleLogout of either dashboard
handleLogout(c) ==
  /\ Rendered(c)
  /\ route[c] \in {"/tenant", "/owner"}
  /\ session' = [session EXCEPT ![c] = NoUser]
  /\ notify' = [notify EXCEPT ![c] = FALSE]
  /\ Show(c, Blank("/", NoRoomId, NoRole))
  /\ last' = Idle
  /\ UNCHANGED db

\* RoomDetails: the message textarea's onChange
setMessage(c, m) ==
  /\ Rendered(c) /\ route[c] = "/room"
  /\ m # message[c]
  /\ message' = [message EXCEPT ![c] = m]
  /\ last' = Idle
  /\ UNCHANGED <<db, session, notify, route, roomId, userRole, ownerRooms, ownerRequests,
                 room, tenant, guard>>

\* the row with owner_id taken from the sender's profile instead of the room
NewRequest_OwnerFromProfile(id, rm, p, m) ==
  [id |-> id, room_id |-> rm.id, tenant_id |-> p.id, owner_id |-> p.id,
   message |-> IF m # "" THEN m ELSE DefaultMessage, status |-> "pending"]

\* the row handleSendRequest inserts
NewRequest(id, rm, p, m) ==
  [id |-> id, room_id |-> rm.id, tenant_id |-> p.id, owner_id |-> rm.owner_id,
   message |-> IF m # "" THEN m ELSE DefaultMessage, status |-> "pending"]

\* the insert without the foreign key of room_id
InsertError_NoForeignKey(rms, row, up) ==
  IF ~up THEN FetchFailed ELSE ""

\* from("requests").insert([row]): the error it returns, "" for none
InsertError(rms, row, up) ==
  IF ~up THEN FetchFailed
  ELSE IF \A r \in rms : r.id # row.room_id THEN FKViolation
  ELSE ""

\* the checks without the one on the session user
SendRequestError_NoUserCheck(u, p, rms, row, up) ==
  IF p = NoProfile THEN "Profile not found"
  ELSE InsertError(rms, row, up)

\* the error handleSendRequest throws and toasts, "" for none
SendRequestError(u, p, rms, row, up) ==
  IF u = NoUser THEN "Not authenticated"
  ELSE IF p = NoProfile THEN "Profile not found"
  ELSE InsertError(rms, row, up)

\* RoomDetails.handleSendRequest
handleSendRequest(c, up) ==
  /\ Rendered(c) /\ route[c] = "/room"
  /\ room[c] # NoRoom
  /\ nextReqId <= MaxRequests
  /\ LET u == session[c]
         p == ProfileOf(u)
         row == NewRequest(nextReqId, room[c], p, message[c])
         err == SendRequestError(u, p, rooms, row, up)
         call == [Call("handleSendRequest", c) EXCEPT
                    !.room = room[c].id, !.owner = room[c].owner_id,
                    !.arg = message[c], !.up = up]
     IN IF err = ""
        THEN /\ requests' = requests \cup {row}
             /\ nextReqId' = nextReqId + 1
             /\ message' = [message EXCEPT ![c] = ""]
             /\ last' = [call EXCEPT !.req = row.id,
                                     !.toast = Toast("Success", "Request sent successfully!")]
        ELSE /\ UNCHANGED <<requests, nextReqId, message>>
             /\ last' = [call EXCEPT !.toast = Toast("Error", err)]
  /\ UNCHANGED <<rooms, nextRoomId, onDelete, session, notify, route, roomId, userRole,
                 ownerRooms, ownerRequests, room, tenant, guard>>

\* from("requests").update({ status }).eq("id", id)
UpdateStatus(reqs, id, status) ==
  { IF q.id = id THEN [q EXCEPT !.status = status] ELSE q : q \in reqs }

StatusOf(reqs, id) ==
  IF \E q \in reqs : q.id = id THEN (CHOOSE q \in reqs : q.id = id).status ELSE "none"

OwnerOf(reqs, id) ==
  IF \E q \in reqs : q.id = id THEN (CHOOSE q \in reqs : q.id = id).owner_id ELSE 0

\* the dashboard's views after the trailing fetchOwnerData of a handler
Refresh(c, f) ==
  /\ ownerRooms' = [ownerRooms EXCEPT ![c] = f.rooms]
  /\ ownerRequests' = [ownerRequests EXCEPT ![c] = f.requests]

\* OwnerDashboard.handleRequestAction, from the buttons of a request shown as pending
handleRequestAction(c, id, status, up) ==
  /\ Rendered(c) /\ route[c] = "/owner"
  /\ \E e \in ownerRequests[c] : e.id = id /\ e.status = "pending"
  /\ LET call == [Call("handleRequestAction", c) EXCEPT
                    !.req = id, !.arg = status, !.up = up,
                    !.pre = StatusOf(requests, id), !.owner = OwnerOf(requests, id)]
     IN IF up
        THEN /\ requests' = UpdateStatus(requests, id, status)
             /\ Refresh(c, FetchOwnerData(session[c], up, rooms, requests',
                                          ownerRooms[c], ownerRequests[c]))
             /\ last' = [call EXCEPT !.toast = Toast("Success", IF status = "accepted"
                                                  THEN "Request accepted successfully"
                                                  ELSE "Request rejected successfully")]
        ELSE /\ UNCHANGED <<requests, ownerRooms, ownerRequests>>
             /\ last' = [call EXCEPT !.toast = Toast("Error", "Failed to update request")]
  /\ UNCHANGED <<rooms, nextRoomId, nextReqId, onDelete, session, notify, route, roomId,
                 userRole, room, message, tenant, guard>>

\* the delete that removes the room's requests first, whatever the rule
DeleteRoom_WithRequests(rms, reqs, rule, rid) ==
  [ok |-> TRUE,
   rooms |-> { r \in rms : r.id # rid },
   requests |-> { q \in reqs : q.room_id # rid }]

\* from("rooms").delete().eq("id", rid) under the foreign key of requests.room_id
DeleteRoom(rms, reqs, rule, rid) ==
  LET refs == { q \in reqs : q.room_id = rid }
  IN IF refs # {} /\ rule = "no_action"
     THEN [ok |-> FALSE, rooms |-> rms, requests |-> reqs]
     ELSE [ok |-> TRUE,
           rooms |-> { r \in rms : r.id # rid },
           requests |-> IF rule = "cascade" THEN reqs \ refs
                        ELSE { IF q \in refs THEN [q EXCEPT !.room_id = NoRoomId] ELSE q
                               : q \in reqs }]

\* OwnerDashboard.handleDeleteRoom, from the delete button of a room shown
handleDeleteRoom(c, rid) ==
  /\ Rendered(c) /\ route[c] = "/owner"
  /\ \E r \in ownerRooms[c] : r.id = rid
  /\ LET d == DeleteRoom(rooms, requests, onDelete, rid)
         call == [Call("handleDeleteRoom", c) EXCEPT
                    !.room = rid, !.owner = RoomById(rooms, rid).owner_id]
     IN IF d.ok
        THEN /\ rooms' = d.rooms
             /\ requests' = d.requests
             /\ Refresh(c, FetchOwnerData(session[c], TRUE, rooms', requests',
                                          ownerRooms[c], ownerRequests[c]))
             /\ last' = [call EXCEPT !.toast = Toast("Success", "Room deleted successfully")]
        ELSE /\ UNCHANGED <<rooms, requests, ownerRooms, ownerRequests>>
             /\ last' = [call EXCEPT !.toast = Toast("Error", "Failed to delete room")]
  /\ UNCHANGED <<nextRoomId, nextReqId, onDelete, session, notify, route, roomId,
                 userRole, room, message, tenant, guard>>

\* AddRoomForm.handleSubmit, with onSuccess of the dashboard
handleSubmit(c, rent) ==
  /\ Rendered(c) /\ route[c] = "/owner"
  /\ nextRoomId <= MaxRooms
  /\ LET u == session[c]
         p == ProfileOf(u)
         row == [id |-> nextRoomId, owner_id |-> p.id, rent |-> rent, is_active |-> TRUE,
                 city |-> <<"a">>, landmark |-> <<>>, room_type |-> "both"]
         err == IF u = NoUser THEN "Not authenticated"
                ELSE IF p = NoProfile THEN "Profile not found"
                ELSE ""
     IN IF err = ""
        THEN /\ rooms' = rooms \cup {row}
             /\ nextRoomId' = nextRoomId + 1
             /\ Refresh(c, FetchOwnerData(u, TRUE, rooms', requests,
                                          ownerRooms[c], ownerRequests[c]))
             /\ last' = Idle
        ELSE /\ UNCHANGED <<rooms, nextRoomId, ownerRooms, ownerRequests>>
             /\ last' = Idle
  /\ UNCHANGED <<requests, nextReqId, onDelete, session, notify, route, roomId,
                 userRole, room, message, tenant, guard>>

\* the client-local state before any route is entered
InitClients ==
  /\ notify = [c \in Clients |-> FALSE]
  /\ route = [c \in Clients |-> "/"]
  /\ roomId = [c \in Clients |-> NoRoomId]
  /\ userRole = [c \in Clients |-> NoRole]
  /\ ownerRooms = [c \in Clients |-> {}]
  /\ ownerRequests = [c \in Clients |-> {}]
  /\ room = [c \in Clients |-> NoRoom]
  /\ message = [c \in Clients |-> ""]
  /\ tenant = [c \in Clients |-> NoListing]
  /\ guard = [c \in Clients |-> NoGuard]
  /\ last = Idle

\* ---------------------------------------------------------------------------
\* Creating requests: a tenant's browser c1 (RoomDetails) and an owner's
\* browser c2 (OwnerDashboard with AddRoomForm) on the shared tables.
InitCreate ==
  /\ rooms = {InactiveRoom}
  /\ nextRoomId = 2
  /\ requests = {}
  /\ nextReqId = 1
  /\ onDelete \in OnDeleteRules
  /\ session = [c \in Clients |-> NoUser]
  /\ InitClients

NextCreate ==
  \/ \E c \in Clients, path \in Routes, rid \in 0..MaxRooms : checkAuth(c, path, rid)
  \/ \E c \in Clients : onAuthStateChange(c)
  \/ \E c \in Clients : \E u \in UsersCreate(c) : signIn(c, u)
  \/ \E c \in Clients : sessionEnded(c)
  \/ \E c \in Clients : handleLogout(c)
  \/ \E c \in Clients, m \in Messages : setMessage(c, m)
  \/ \E c \in Clients, up \in BOOLEAN : handleSendRequest(c, up)
  \/ \E c \in Clients, rid \in 1..MaxRooms : handleDeleteRoom(c, rid)
  \/ \E c \in Clients, rent \in Rents : handleSubmit(c, rent)

SpecCreate == InitCreate /\ [][NextCreate]_vars

\* ---------------------------------------------------------------------------
\* Deciding requests: two owners' browsers on a table of requests that a
\* tenant has sent for the room of owner 2.
ActiveRoom ==
  [id |-> 1, owner_id |-> 2, rent |-> 5000, is_active |-> TRUE,
   city |-> <<"a">>, landmark |-> <<>>, room_type |-> "both"]

SentRequests(n) ==
  { NewRequest(i, ActiveRoom, ProfileOf("u1"), "hello") : i \in 1..n }

InitDecide ==
  /\ rooms = {ActiveRoom}
  /\ nextRoomId = 2
  /\ \E n \in 1..MaxRequests :
       /\ requests = SentRequests(n)
       /\ nextReqId = n + 1
  /\ onDelete = "no_action"
  /\ session = [c \in Clients |-> NoUser]
  /\ InitClients

NextDecide ==
  \/ \E c \in Clients : checkAuth(c, "/owner", NoRoomId)
  \/ \E c \in Clients : onAuthStateChange(c)
  \/ \E c \in Clients : \E u \in UsersDecide(c) : signIn(c, u)
  \/ \E c \in Clients : sessionEnded(c)
  \/ \E c \in Clients : handleLogout(c)
  \/ \E c \in Clients, id \in 1..MaxRequests, status \in {"accepted", "rejected"},
        up \in BOOLEAN : handleRequestAction(c, id, status, up)

SpecDecide == InitDecide /\ [][NextDecide]_vars

\* ---------------------------------------------------------------------------
\* The whole lifecycle: create, decide and delete together, a tenant's browser
\* c1 and an owner's browser c2, under the schema the design describes.
SchemaOnDelete == "no_action"

UsersLifecycle(c) == IF c = "c1" THEN {"u1"} ELSE {"u2", "u3"}

InitLifecycle ==
  /\ rooms = {InactiveRoom}
  /\ nextRoomId = 2
  /\ requests = {}
  /\ nextReqId = 1
  /\ onDelete = SchemaOnDelete
  /\ session = [c \in Clients |-> NoUser]
  /\ InitClients

NextLifecycle ==
  \/ \E c \in Clients, path \in {"/owner", "/room"}, rid \in 0..MaxRooms :
       checkAuth(c, path, rid)
  \/ \E c \in Clients : onAuthStateChange(c)
  \/ \E c \in Clients : \E u \in UsersLifecycle(c) : signIn(c, u)
  \/ \E c \in Clients : handleSendRequest(c, TRUE)
  \/ \E c \in Clients, id \in 1..MaxRequests, status \in {"accepted", "rejected"} :
       handleRequestAction(c, id, status, TRUE)
  \/ \E c \in Clients, rid \in 1..MaxRooms : handleDeleteRoom(c, rid)
  \/ \E c \in Clients, rent \in Rents : handleSubmit(c, rent)

SpecLifecycle == InitLifecycle /\ [][NextLifecycle]_vars

\* ---------------------------------------------------------------------------
\* One browser whose session changes between a tenant and an owner.
InitSwitch ==
  /\ rooms = {ActiveRoom}
  /\ nextRoomId = 2
  /\ requests = {}
  /\ nextReqId = 1
  /\ onDelete = SchemaOnDelete
  /\ session = [c \in Clients |-> NoUser]
  /\ InitClients

NextSwitch ==
  \/ \E path \in Routes, rid \in 0..1 : checkAuth("c1", path, rid)
  \/ onAuthStateChange("c1")
  \/ \E u \in {"u1", "u2"} : signIn("c1", u)
  \/ sessionEnded("c1")
  \/ \E m \in Messages : setMessage("c1", m)
  \/ handleSendRequest("c1", TRUE)

SpecSwitch == InitSwitch /\ [][NextSwitch]_vars

\* ---------------------------------------------------------------------------
\* Properties of deciding (SpecDecide)

Terminal == {"accepted", "rejected"}

Decided == last.op = "handleRequestAction"

\* C1: once the status of a request is accepted or rejected, no later step
\* changes it.
C1_TerminalIsFinal ==
  [][\A q \in requests : q.status \in Terminal =>
       \A q2 \in requests' : q2.id = q.id => q2.status = q.status]_vars

\* C2: a decide call on a request that is already accepted or rejected, with
\* the backend reachable, reports a failure and never success, also when the
\* decision equals the status the request has.
C2_TerminalDecideFails ==
  (Decided /\ last.up /\ last.pre \in Terminal) => last.toast.title = "Error"

\* C3: a decide call by a profile other than the request's owner_id reports a
\* failure and leaves the request's status as it was.
C3_OnlyOwnerDecides ==
  (Decided /\ last.up /\ last.actor # 0 /\ last.actor # last.owner)
    => /\ last.toast.title = "Error"
       /\ StatusOf(requests, last.req) = last.pre

\* C4: of two opposite decide calls by the owner from two dashboards that both
\* loaded the request as pending, the second one fails and the status stays
\* the decision of the first.
C4_OneDecisionWins ==
  ( /\ Decided /\ last.up
    /\ last.actor = last.owner
    /\ last.pre \in Terminal
    /\ last.arg # last.pre
    /\ \E c \in Clients \ {last.client} :
         /\ Rendered(c) /\ route[c] = "/owner"
         /\ ProfileOf(session[c]).id = last.owner
         /\ \E e \in ownerRequests[c] : e.id = last.req /\ e.status = last.pre )
    => /\ last.toast.title = "Error"
       /\ StatusOf(requests, last.req) = last.pre

\* C5: the requests delivered to an owner's dashboard carry the tenant's email
\* and phone only for requests whose status is accepted.
C5_ContactOnlyWhenAccepted ==
  \A c \in Clients : \A e \in ownerRequests[c] :
    e.status # "accepted" => e.tenant.email = "" /\ e.tenant.phone = ""

\* ---------------------------------------------------------------------------
\* Properties of creating (SpecCreate)

Sent == last.op = "handleSendRequest"

\* a step of handleSendRequest
SendStep == last' # last /\ last'.op = "handleSendRequest"

\* C6: a create call against a room whose is_active is false fails and adds
\* no request row.
C6_InactiveRoomRejected ==
  (Sent /\ \E r \in rooms : r.id = last.room /\ ~r.is_active)
    => /\ last.toast.title = "Error"
       /\ \A q \in requests : q.room_id # last.room

\* C7: a create call whose room no longer exists fails and persists no row;
\* for a caller with a profile and a reachable backend the error is the
\* violated foreign key of room_id.
C7_MissingRoomRejected ==
  [][(SendStep /\ \A r \in rooms : r.id # last'.room)
       => /\ requests' = requests
          /\ last'.toast.title = "Error"
          /\ (last'.actor # 0 /\ last'.up) => last'.toast.description = FKViolation]_vars

C7_Witness ==
  /\ Sent /\ last.up /\ last.actor # 0
  /\ \A r \in rooms : r.id # last.room
  /\ last.toast = Toast("Error", FKViolation)

\* C8: the request a create call persists has the owner_id of the room its
\* room_id names, and so has every stored request whose room exists.
C8_OwnerCopiedFromRoom ==
  /\ (Sent /\ last.toast.title = "Success")
       => \E q \in requests :
            /\ q.id = last.req
            /\ RoomById(rooms, q.room_id) # NoRoom
            /\ q.owner_id = RoomById(rooms, q.room_id).owner_id
  /\ \A q \in requests :
       RoomById(rooms, q.room_id) # NoRoom => q.owner_id = RoomById(rooms, q.room_id).owner_id

C8_Witness ==
  /\ Sent /\ last.toast.title = "Success"
  /\ \E q \in requests : q.id = last.req /\ q.owner_id = 2 /\ q.tenant_id = 1

\* C9: a create call without a session fails with "Not authenticated", one by
\* a user without a profile with "Profile not found"; neither changes the
\* stored requests.
C9_UnauthenticatedRejected ==
  [][SendStep =>
       LET u == session[last'.client]
       IN /\ u = NoUser
               => requests' = requests /\ last'.toast = Toast("Error", "Not authenticated")
          /\ (u # NoUser /\ ProfileOf(u) = NoProfile)
               => requests' = requests /\ last'.toast = Toast("Error", "Profile not found")]_vars

C9_Witness ==
  /\ Sent
  /\ session[last.client] = "u4"
  /\ last.toast = Toast("Error", "Profile not found")

\* C10: after a successful create with a non-empty message on an active room
\* without earlier requests, the list of the room's owner has exactly one
\* entry for the room: pending, with that message, tenant and room.
C10_Created ==
  /\ Sent /\ last.toast.title = "Success"
  /\ last.arg # ""
  /\ RoomById(rooms, last.room).is_active
  /\ \A q \in requests : q.room_id = last.room => q.id = last.req

C10_RoundTrip ==
  C10_Created =>
    LET L == { e \in ListForOwner(rooms, requests, last.owner) : e.room_id = last.room }
    IN /\ Cardinality(L) = 1
       /\ \A e \in L : /\ e.status = "pending"
                       /\ e.message = last.arg
                       /\ e.tenant_id = last.actor
                       /\ e.room_id = last.room

C10_Witness == C10_Created /\ last.arg = "hello" /\ Cardinality(requests) = 2

\* ---------------------------------------------------------------------------
\* Properties of the lifecycle as a whole

Statuses == {"pending", "accepted", "rejected"}

\* C11: a request is created pending, its status is always pending, accepted
\* or rejected, and a status only ever changes from pending to accepted or to
\* rejected.
C11_StatusLifecycle ==
  [][/\ \A q \in requests' : q.status \in Statuses
     /\ \A q \in requests' : (\A o \in requests : o.id # q.id) => q.status = "pending"
     /\ \A o \in requests : \A q \in requests' :
          (o.id = q.id /\ o.status # q.status)
            => (o.status = "pending" /\ q.status \in Terminal)]_vars

C13_OnlyOwnerDeletes ==
  [][/\ \A r \in rooms : \A r2 \in rooms' : r2.id = r.id => r2 = r
     /\ (last' # last /\ last'.op = "handleDeleteRoom" /\ last'.toast.title = "Success"
         /\ last'.actor # 0)
          => last'.actor = last'.owner]_vars

\* C16: a decide call that fails for a race or a policy violation reports an
\* error, and one that differs from the error of a backend failure.
C16_FailuresDistinguished ==
  (Decided /\ last.up
     /\ (last.pre \in Terminal \/ (last.actor # 0 /\ last.actor # last.owner)))
    => /\ last.toast.title = "Error"
       /\ last.toast.description # "Failed to update request"

\* the stored columns of a listed request
RequestRow(e) ==
  [id |-> e.id, room_id |-> e.room_id, tenant_id |-> e.tenant_id, owner_id |-> e.owner_id,
   message |-> e.message, status |-> e.status]

\* the dashboard of the latest call has just fetched its owner's data
Listed ==
  \/ last.op = "fetchOwnerData" /\ last.toast = NoToast
  \/ Decided /\ last.toast.title = "Success" /\ last.actor # 0

\* C17: the requests an owner's dashboard fetches are all and only the stored
\* requests with that owner's id, whatever their status.
C17_ListAllAndOnly ==
  Listed =>
    { RequestRow(e) : e \in ownerRequests[last.client] }
      = { q \in requests : q.owner_id = last.actor }

C17_Witness ==
  /\ last.op = "fetchOwnerData" /\ last.toast = NoToast
  /\ \E e \in ownerRequests[last.client] : e.status = "accepted"
  /\ \E q \in requests : q.owner_id # last.actor

\* C18: every stored request has the tenant_id of a profile whose role is
\* tenant.
C18_TenantsOnly ==
  \A q \in requests : ProfileById(q.tenant_id).role = "tenant"


\* ------------------------------------------------------------------ search
MaxLocLen == 2

\* text is a sequence of one-character strings over Chars
Chars == {"a", "A", "b", "_"}
Locations == UNION { [1..n -> Chars] : n \in 0..MaxLocLen }
Budgets == {5000, 9000}
RoomTypes == {"student", "family", "both"}

Lower(ch) == IF ch = "A" THEN "a" ELSE IF ch = "B" THEN "b" ELSE ch

\* SQL LIKE on case-folded text: "%" matches any run, "_" any one character
RECURSIVE Like(_, _)
Like(p, t) ==
  IF p = <<>> THEN t = <<>>
  ELSE IF Head(p) = "%"
       THEN Like(Tail(p), t) \/ (t # <<>> /\ Like(p, Tail(t)))
       ELSE /\ t # <<>>
            /\ (Head(p) = "_" \/ Lower(Head(p)) = Lower(Head(t)))
            /\ Like(Tail(p), Tail(t))

\* column.ilike.%${searchLocation}%
ILike(loc, text) == Like(<<"%">> \o loc \o <<"%">>, text)

\* the rows handleSearch's query selects
Search(rms, loc, bud, type) ==
  { r \in rms :
      /\ r.is_active
      /\ r.rent <= bud
      /\ (loc # <<>>) => (ILike(loc, r.city) \/ ILike(loc, r.landmark))
      /\ (type # "both") => (r.room_type = type) }

OnTenantDashboard(c) == Rendered(c) /\ route[c] = "/tenant"

SearchFrame ==
  UNCHANGED <<db, session, notify, route, roomId, userRole, ownerRooms, ownerRequests,
              room, message, guard>>

setSearchLocation(c, loc) ==
  /\ OnTenantDashboard(c)
  /\ loc # tenant[c].searchLocation
  /\ tenant' = [tenant EXCEPT ![c].searchLocation = loc]
  /\ last' = Idle
  /\ SearchFrame

setBudget(c, bud) ==
  /\ OnTenantDashboard(c)
  /\ bud # tenant[c].budget
  /\ tenant' = [tenant EXCEPT ![c].budget = bud]
  /\ last' = Idle
  /\ SearchFrame

setRoomType(c, type) ==
  /\ OnTenantDashboard(c)
  /\ type # tenant[c].roomType
  /\ tenant' = [tenant EXCEPT ![c].roomType = type]
  /\ last' = Idle
  /\ SearchFrame

handleSearch(c) ==
  /\ OnTenantDashboard(c)
  /\ LET t == tenant[c]
     IN tenant' = [tenant EXCEPT
                     ![c].rooms = Search(rooms, t.searchLocation, t.budget, t.roomType)]
  /\ last' = Call("handleSearch", c)
  /\ SearchFrame

\* the listings of the search specification
SearchRooms ==
  { [id |-> 1, owner_id |-> 2, rent |-> 5000, is_active |-> TRUE,
     city |-> <<"a", "b">>, landmark |-> <<>>, room_type |-> "student"],
    [id |-> 2, owner_id |-> 2, rent |-> 9000, is_active |-> TRUE,
     city |-> <<"A">>, landmark |-> <<"b", "_">>, room_type |-> "family"],
    [id |-> 3, owner_id |-> 3, rent |-> 5000, is_active |-> FALSE,
     city |-> <<"a">>, landmark |-> <<>>, room_type |-> "both"],
    [id |-> 4, owner_id |-> 3, rent |-> 5000, is_active |-> TRUE,
     city |-> <<"b">>, landmark |-> <<"A", "b">>, room_type |-> "both"] }

InitSearch ==
  /\ rooms = SearchRooms
  /\ nextRoomId = 5
  /\ requests = {}
  /\ nextReqId = 1
  /\ onDelete = SchemaOnDelete
  /\ session = [c \in Clients |-> IF c = "c1" THEN "u1" ELSE NoUser]
  /\ InitClients

NextSearch ==
  \/ \E path \in {"/tenant", "/room"}, rid \in 0..4 : checkAuth("c1", path, rid)
  \/ \E loc \in Locations : setSearchLocation("c1", loc)
  \/ \E bud \in Budgets : setBudget("c1", bud)
  \/ \E type \in RoomTypes : setRoomType("c1", type)
  \/ handleSearch("c1")

SpecSearch == InitSearch /\ [][NextSearch]_vars

\* the location text occurs in the text, letter case ignored
Occurs(loc, text) ==
  \E i \in 1..(Len(text) - Len(loc) + 1) :
    \A k \in 1..Len(loc) : Lower(text[i + k - 1]) = Lower(loc[k])

\* C14: every room a tenant is shown, by the initial listing, by a search or by
\* opening the room-details view for a room id, has is_active = true
C14_ShownRoomsActive ==
  \A c \in Clients :
    Rendered(c) =>
      /\ route[c] = "/tenant" => \A r \in tenant[c].rooms : r.is_active
      /\ route[c] = "/room" => room[c].is_active

\* C19: a search returns exactly the rooms that are active, cost at most the budget,
\* have the non-empty location text occurring case-insensitively in city or
\* landmark, and are of exactly the chosen type unless the type is "both"
C19_SearchExact ==
  last.op = "handleSearch" =>
    LET t == tenant[last.client]
    IN t.rooms =
         { r \in rooms :
             /\ r.is_active
             /\ r.rent <= t.budget
             /\ t.searchLocation = <<>>
                  \/ Occurs(t.searchLocation, r.city)
                  \/ Occurs(t.searchLocation, r.landmark)
             /\ t.roomType = "both" \/ r.room_type = t.roomType }


\* ----------------------------------------------- AuthGuard, one await at a time
MaxNotify == 2

UsersGuard == {"u1", "u2", "u4"}

\* a run of checkAuth: awaiting getSession, resumed with its result, awaiting the profile
Check(pc, u) == [pc |-> pc, user |-> u]

\* AuthGuard's render reaches its children
GuardRenders(c) ==
  /\ guard[c].mounted
  /\ ~guard[c].loading
  /\ guard[c].user # NoUser /\ userRole[c] # NoRole
  /\ userRole[c] = RequiredRole(route[c])

GuardFrame == UNCHANGED <<db, notify, ownerRooms, ownerRequests, room, message, tenant>>

\* the guarded route is left for path: the guard is unmounted, its subscription is
\* cancelled, and what its pending continuations set is dropped
Unmounted(g) == [g EXCEPT !.mounted = FALSE, !.events = <<>>]

\* the signed-out branch without navigate("/")
SignedOut_NoNavigate(g, path) ==
  [guard |-> [g EXCEPT !.user = NoUser, !.events = Tail(g.events), !.signedOut = TRUE],
   route |-> path, userRole |-> NoRole]

\* the callback's branch for a session without user:
\* setUser(null); setUserRole(null); navigate("/")
SignedOut(g, path) ==
  [guard |-> [Unmounted(g) EXCEPT !.user = NoUser, !.signedOut = TRUE],
   route |-> "/", userRole |-> NoRole]

\* a guarded route is entered from outside: a new AuthGuard runs its effect,
\* which calls checkAuth and subscribes
useEffect(c, path) ==
  /\ ~guard[c].mounted
  /\ guard' = [guard EXCEPT ![c] =
                 [NoGuard EXCEPT !.mounted = TRUE, !.checks = {Check("getSession", NoUser)}]]
  /\ route' = [route EXCEPT ![c] = path]
  /\ roomId' = [roomId EXCEPT ![c] = IF path = "/room" THEN 1 ELSE NoRoomId]
  /\ userRole' = [userRole EXCEPT ![c] = NoRole]
  /\ last' = Idle
  /\ UNCHANGED session
  /\ GuardFrame

\* the auth client's session changes; a subscribed guard is notified
sessionChanged(c, u) ==
  /\ u # session[c]
  /\ guard[c].mounted => Len(guard[c].events) < MaxNotify
  /\ session' = [session EXCEPT ![c] = u]
  /\ guard' = [guard EXCEPT ![c].events =
                 IF guard[c].mounted THEN Append(@, u) ELSE @]
  /\ last' = Idle
  /\ UNCHANGED <<route, roomId, userRole>>
  /\ GuardFrame

\* checkAuth: supabase.auth.getSession() resolves with the current session
getSession(c) ==
  /\ \E k \in guard[c].checks :
       /\ k.pc = "getSession"
       /\ guard' = [guard EXCEPT ![c].checks =
                      (@ \ {k}) \cup {Check("session", session[c])}]
  /\ last' = Idle
  /\ UNCHANGED <<session, route, roomId, userRole>>
  /\ GuardFrame

\* checkAuth resumes after getSession: setUser and the profile query, or navigate("/")
checkAuthSession(c) ==
  /\ \E k \in guard[c].checks :
       /\ k.pc = "session"
       /\ LET g == guard[c]
              rest == g.checks \ {k}
          IN IF ~g.mounted
             THEN /\ guard' = [guard EXCEPT ![c].checks = rest,
                                            ![c].late = @ \/ g.signedOut]
                  /\ UNCHANGED <<route, roomId, userRole>>
             ELSE IF k.user # NoUser
             THEN /\ guard' = [guard EXCEPT
                                 ![c].user = k.user,
                                 ![c].checks = rest \cup {Check("profile", k.user)}]
                  /\ UNCHANGED <<route, roomId, userRole>>
             ELSE /\ guard' = [guard EXCEPT ![c] = [Unmounted(g) EXCEPT !.checks = rest]]
                  /\ route' = [route EXCEPT ![c] = "/"]
                  /\ roomId' = [roomId EXCEPT ![c] = NoRoomId]
                  /\ userRole' = [userRole EXCEPT ![c] = NoRole]
  /\ last' = Idle
  /\ UNCHANGED session
  /\ GuardFrame

\* a profile query for u resolves in guard g with role state role:
\* if (profile) setUserRole(profile.role); setLoading(false)
ProfileResolved(g, role, u) ==
  LET p == ProfileOf(u)
  IN IF g.mounted
     THEN [guard |-> [g EXCEPT !.loading = FALSE],
           userRole |-> IF p # NoProfile THEN p.role ELSE role]
     ELSE [guard |-> [g EXCEPT !.late = @ \/ g.signedOut], userRole |-> role]

\* checkAuth resumes after its profile query
checkAuthProfile(c) ==
  /\ \E k \in guard[c].checks :
       /\ k.pc = "profile"
       /\ LET n == ProfileResolved([guard[c] EXCEPT !.checks = @ \ {k}], userRole[c], k.user)
          IN /\ guard' = [guard EXCEPT ![c] = n.guard]
             /\ userRole' = [userRole EXCEPT ![c] = n.userRole]
  /\ last' = Idle
  /\ UNCHANGED <<session, route, roomId>>
  /\ GuardFrame

\* the onAuthStateChange callback runs up to its await
authStateChange(c) ==
  /\ guard[c].mounted
  /\ guard[c].events # <<>>
  /\ LET g == guard[c]
         u == Head(g.events)
     IN IF u # NoUser
        THEN /\ guard' = [guard EXCEPT ![c] =
                            [g EXCEPT !.user = u, !.lookups = @ \cup {u},
                                      !.events = Tail(@), !.signedOut = FALSE]]
             /\ UNCHANGED <<route, roomId, userRole>>
        ELSE LET n == SignedOut(g, route[c])
             IN /\ guard' = [guard EXCEPT ![c] = n.guard]
                /\ route' = [route EXCEPT ![c] = n.route]
                /\ roomId' = [roomId EXCEPT ![c] = IF n.route = "/" THEN NoRoomId ELSE @]
                /\ userRole' = [userRole EXCEPT ![c] = n.userRole]
  /\ last' = Idle
  /\ UNCHANGED session
  /\ GuardFrame

\* the callback resumes after its profile query
authStateProfile(c) ==
  /\ \E u \in guard[c].lookups :
       LET n == ProfileResolved([guard[c] EXCEPT !.lookups = @ \ {u}], userRole[c], u)
       IN /\ guard' = [guard EXCEPT ![c] = n.guard]
          /\ userRole' = [userRole EXCEPT ![c] = n.userRole]
  /\ last' = Idle
  /\ UNCHANGED <<session, route, roomId>>
  /\ GuardFrame

\* render with a role other than the required one: navigate to the own dashboard;
\* the guard of the new route keeps its state and runs its effect again
render(c) ==
  /\ guard[c].mounted
  /\ ~guard[c].loading
  /\ guard[c].user # NoUser /\ userRole[c] # NoRole
  /\ userRole[c] # RequiredRole(route[c])
  /\ route' = [route EXCEPT ![c] = OwnDashboard(userRole[c])]
  /\ roomId' = [roomId EXCEPT ![c] = NoRoomId]
  /\ guard' = [guard EXCEPT ![c].checks = @ \cup {Check("getSession", NoUser)}]
  /\ last' = Idle
  /\ UNCHANGED <<session, userRole>>
  /\ GuardFrame

InitGuard ==
  /\ rooms = {ActiveRoom}
  /\ nextRoomId = 2
  /\ requests = {}
  /\ nextReqId = 1
  /\ onDelete = SchemaOnDelete
  /\ session = [c \in Clients |-> NoUser]
  /\ InitClients

NextGuard ==
  \/ \E path \in Guarded : useEffect("c1", path)
  \/ \E u \in UsersGuard \cup {NoUser} : sessionChanged("c1", u)
  \/ getSession("c1")
  \/ checkAuthSession("c1")
  \/ checkAuthProfile("c1")
  \/ authStateChange("c1")
  \/ authStateProfile("c1")
  \/ render("c1")

SpecGuard == InitGuard /\ [][NextGuard]_vars

\* C15: the guard renders the protected content of a route only while it has a
\* session user whose profile role equals the route's required role
C15_RoleGated ==
  \A c \in Clients :
    GuardRenders(c) =>
      /\ guard[c].user # NoUser
      /\ ProfileOf(guard[c].user).role = RequiredRole(route[c])

\* C20: after a signed-out notification the guard does not render protected content
\* until a notification carries a signed-in user, whatever completes late
C20_SignedOutStays == \A c \in Clients : guard[c].signedOut => ~GuardRenders(c)

\* a continuation started before the sign-out completed after it
C20_Witness == \E c \in Clients : guard[c].signedOut /\ guard[c].late


\* every await of the guard resolves and every scheduled render runs; the session
\* provider and the user entering routes are under no obligation
FairGuard ==
  /\ WF_vars(getSession("c1"))
  /\ WF_vars(checkAuthSession("c1"))
  /\ WF_vars(checkAuthProfile("c1"))
  /\ WF_vars(authStateChange("c1"))
  /\ WF_vars(authStateProfile("c1"))
  /\ WF_vars(render("c1"))

SpecGuardFair == SpecGuard /\ FairGuard

\* C21: a mounted guard that is not rendering its children eventually renders them
\* or navigates away; it never stays loading or blank for ever
C21_GuardResolves ==
  \A c \in Clients :
    (guard[c].mounted /\ ~GuardRenders(c)) ~> (GuardRenders(c) \/ ~guard[c].mounted)

====
